---- MODULE Spec2Model ----
(***************************************************************************)
(* Model of aeronet/dataset/io.py: SequentialSampler (block planner),      *)
(* SampleWindowWriter / SampleCollectionWindowWriter (windowed writers)    *)
(* and Predictor.process (tile processor).                                 *)
(*                                                                         *)
(* Arrays are sequences of rows (1-based in TLA+, 0-based pixel            *)
(* coordinates in the formulas: pixel (r, c) is arr[r + 1][c + 1]).        *)
(* Pixel value 0 is "nodata / never written".                              *)
(***************************************************************************)
EXTENDS Integers, Sequences, FiniteSets, TLC

\* ------------------------------------------------------------------ bounds
\* raster extents H, W range over 1..MaxExtent
MaxExtent == 3
\* sample sizes h, w range over -NegSample..MaxSample (zero and negative included)
MaxSample == 2
NegSample == 1
\* bound ranges over 0..MaxBound
MaxBound == 2
\* number of channels / labels ranges over 1..MaxChannels
MaxChannels == 2
\* direct calls of SampleWindowWriter.write: raster sides 1..WinMax, trims 0..TrimMax
WinMax == 2
TrimMax == 1

VARIABLES
    bcHeight,     \* band_collection.height
    bcWidth,      \* band_collection.width
    sample_size,  \* <<h, w>>
    bound,        \* self.bound
    nChannels,    \* len(input_channels) = len(output_labels)
    predictor,    \* "base" (Predictor itself) or "identity" (a subclass returning its sample)
    blocks,       \* SequentialSampler.blocks
    pc,           \* position inside Predictor.process / the writer session
    i,            \* index of the block the loop is at
    sample,       \* the sample read for block i
    raster,       \* the result of predict for block i
    dsts,         \* per channel, the destination raster of writers[ch].dst
    closed,       \* per channel, how many times writers[ch].close() ran
    log,          \* history: the read / predict / write / close events so far
    err,          \* the exception that left process ("none" while there is none)
    failedAt,     \* the step that raised
    lastWrite     \* history: arguments of the latest write and the calls it dispatched

vars == <<bcHeight, bcWidth, sample_size, bound, nChannels, predictor, blocks, pc, i,
          sample, raster, dsts, closed, log, err, failedAt, lastWrite>>

\* ----------------------------------------------------------------- helpers
Max(a, b) == IF a >= b THEN a ELSE b

Min(a, b) == IF a <= b THEN a ELSE b

RECURSIVE Flatten(_)
Flatten(ss) == IF ss = <<>> THEN <<>> ELSE Head(ss) \o Flatten(Tail(ss))

\* Python range(start, stop, step) as a sequence, for step # 0
RECURSIVE PyRange(_, _, _)
PyRange(start, stop, step) ==
    IF step > 0
    THEN IF start < stop THEN <<start>> \o PyRange(start + step, stop, step) ELSE <<>>
    ELSE IF step < 0 /\ start > stop
         THEN <<start>> \o PyRange(start + step, stop, step)
         ELSE <<>>

\* Python s[lo:hi] on a sequence: negative indices count from the end, all clipped
PyIndex(k, n) == IF k < 0 THEN Max(k + n, 0) ELSE Min(k, n)

PySlice(s, lo, hi) == SubSeq(s, PyIndex(lo, Len(s)) + 1, PyIndex(hi, Len(s)))

\* numpy shape of a 2-D array held as a sequence of rows
Shape0(arr) == Len(arr)

Shape1(arr) == IF Len(arr) = 0 THEN 0 ELSE Len(arr[1])

\* ------------------------------------------------------- the input raster
\* the known synthetic input: channel ch, row r, column c (r, c 0-based)
SrcPixel(ch, r, c) == ch * 100 + r * 10 + c + 1

\* band_collection.ordered(*channels).sample(y, x, height, width): the window's pixels,
\* nodata where the window lies outside the raster
Sample(y, x, height, width) ==
    [ch \in 1..nChannels |->
        [r \in 1..height |->
            [c \in 1..width |->
                IF /\ y + r - 1 >= 0 /\ y + r - 1 < bcHeight
                   /\ x + c - 1 >= 0 /\ x + c - 1 < bcWidth
                THEN SrcPixel(ch, y + r - 1, x + c - 1)
                ELSE 0]]]

\* ------------------------------------------------------- SequentialSampler
\* mutant: the right/bottom trim does not grow at the raster's edge
BlockAtNoGrow(x, y, H, W, h, w, b) ==
    [x |-> x, y |-> y, height |-> h + 2 * b, width |-> w + 2 * b,
     bounds |-> << <<b, b>>, <<b, b>> >>]

\* lines 48-59: the block appended for (x, y)
BlockAt(x, y, H, W, h, w, b) ==
    LET height == h + 2 * b
        width == w + 2 * b
        rigth_x_bound == Max(b, x + width - W)
        bottom_y_bound == Max(b, y + height - H)
    IN  [x |-> x, y |-> y, height |-> height, width |-> width,
         bounds |-> << <<b, bottom_y_bound>>, <<b, rigth_x_bound>> >>]

\* range() raises ValueError on a zero step: the outer range is built first, the inner
\* one only when the outer loop runs at least once
ComputeRaises(H, W, h, w, b) ==
    \/ h = 0
    \/ (PyRange(-b, H, h) # <<>> /\ w = 0)

\* mutant: the ranges start at 0 instead of -bound
ComputeBlocksFromZero(H, W, h, w, b) ==
    LET ys == PyRange(0, H, h)
        xs == PyRange(0, W, w)
    IN  Flatten([j \in 1..Len(ys) |->
                    [k \in 1..Len(xs) |-> BlockAt(xs[k], ys[j], H, W, h, w, b)]])

\* _compute_blocks: row-major, y outer, x inner
ComputeBlocks(H, W, h, w, b) ==
    LET ys == PyRange(-b, H, h)
        xs == PyRange(-b, W, w)
    IN  Flatten([j \in 1..Len(ys) |->
                    [k \in 1..Len(xs) |-> BlockAt(xs[k], ys[j], H, W, h, w, b)]])

\* ------------------------------------------------------ SampleWindowWriter
\* bounds=None (any falsy value takes the same branch of `if bounds:`)
None == <<>>

\* self.dst.write(arr, 1, window=((y0, y1), (x0, x1))): the window's pixels inside the
\* destination take the array's pixels, the array being stretched to the window when
\* their sizes differ (docstring of write); an empty array or window writes nothing
DstWrite(dst, arr, y0, y1, x0, x1) ==
    LET wh == y1 - y0
        ww == x1 - x0
        ah == Shape0(arr)
        aw == Shape1(arr)
    IN  IF wh <= 0 \/ ww <= 0 \/ ah = 0 \/ aw = 0
        THEN dst
        ELSE [r \in 1..Len(dst) |->
                [c \in 1..Len(dst[r]) |->
                    IF /\ r - 1 >= y0 /\ r - 1 < y1
                       /\ c - 1 >= x0 /\ c - 1 < x1
                    THEN arr[((r - 1 - y0) * ah) \div wh + 1][((c - 1 - x0) * aw) \div ww + 1]
                    ELSE dst[r][c]]]

\* the parameters of SampleWindowWriter.write(raster, x, y, width, height, bounds), in
\* the order of its signature
SWBind(arr, x, y, width, height, bounds) ==
    [raster |-> arr, x |-> x, y |-> y, width |-> width, height |-> height,
     bounds |-> bounds]

\* mutant: the window's origin is not shifted by the left/top trim
SWWriteNoShift(dst, call) ==
    IF call.bounds # None
    THEN LET b == call.bounds
             rows == PySlice(call.raster, b[1][1], Shape0(call.raster) - b[1][2])
             arr == [k \in 1..Len(rows) |->
                        PySlice(rows[k], b[2][1], Shape1(call.raster) - b[2][2])]
             width == call.width - b[2][2] - b[2][1]
             height == call.height - b[1][2] - b[1][1]
         IN  DstWrite(dst, arr, call.y, call.y + height, call.x, call.x + width)
    ELSE DstWrite(dst, call.raster, call.y, call.y + call.height,
                  call.x, call.x + call.width)

\* SampleWindowWriter.write, lines 145-152
SWWrite(dst, call) ==
    IF call.bounds # None
    THEN LET b == call.bounds
             rows == PySlice(call.raster, b[1][1], Shape0(call.raster) - b[1][2])
             arr == [k \in 1..Len(rows) |->
                        PySlice(rows[k], b[2][1], Shape1(call.raster) - b[2][2])]
             x == call.x + b[2][1]
             y == call.y + b[1][1]
             width == call.width - b[2][2] - b[2][1]
             height == call.height - b[1][2] - b[1][1]
         IN  DstWrite(dst, arr, y, y + height, x, x + width)
    ELSE DstWrite(dst, call.raster, call.y, call.y + call.height,
                  call.x, call.x + call.width)

\* -------------------------------------------- SampleCollectionWindowWriter
\* write(raster, x, y, height, width, bounds): the call made to writers[ch], line 217,
\* whose arguments are passed by position
SCWCall(arr, ch, x, y, height, width, bounds) ==
    SWBind(arr[ch], x, y, height, width, bounds)

\* the calls dispatched by one write, channel by channel
SCWCalls(arr, x, y, height, width, bounds) ==
    [ch \in 1..Len(arr) |-> SCWCall(arr, ch, x, y, height, width, bounds)]

\* the destinations after the first n channels of one write were written
SCWWrite(ds, arr, x, y, height, width, bounds, n) ==
    [ch \in 1..Len(ds) |->
        IF ch <= n
        THEN SWWrite(ds[ch], SCWCall(arr, ch, x, y, height, width, bounds))
        ELSE ds[ch]]

\* SampleWindowWriter.open: an empty band of the given shape
Blank(height, width) == [r \in 1..height |-> [c \in 1..width |-> 0]]

\* ---------------------------------------------------------------- Predictor
\* what the base class's predict raises: `raise NotImplemented(...)` calls the constant
\* NotImplemented, which is not callable
BasePredictError == "TypeError"

NoWrite ==
    [args |-> [raster |-> <<>>, x |-> 0, y |-> 0, height |-> 0, width |-> 0,
               bounds |-> None],
     calls |-> <<>>]

\* the keyword arguments of dst.write(raster, **block), line 290
WriteArgs(arr, block) ==
    [raster |-> arr, x |-> block.x, y |-> block.y, height |-> block.height,
     width |-> block.width, bounds |-> block.bounds]

Init ==
    /\ bcHeight \in 1..MaxExtent
    /\ bcWidth \in 1..MaxExtent
    /\ sample_size \in ((-NegSample)..MaxSample) \X ((-NegSample)..MaxSample)
    /\ bound \in 0..MaxBound
    /\ nChannels \in 1..MaxChannels
    /\ predictor \in {"base", "identity"}
    /\ blocks = <<>>
    /\ pc = "start"
    /\ i = 0
    /\ sample = <<>>
    /\ raster = <<>>
    /\ dsts = <<>>
    /\ closed = <<>>
    /\ log = <<>>
    /\ err = "none"
    /\ failedAt = "none"
    /\ lastWrite = NoWrite

\* mutant: a failure is swallowed and the loop goes on with the next block
RaiseSwallowed(kind, at) ==
    /\ pc' = "read"
    /\ i' = i + 1
    /\ err' = kind
    /\ failedAt' = at

\* an exception leaves process: nothing catches it, nothing runs after it
Raise(kind, at) ==
    /\ pc' = "failed"
    /\ i' = i
    /\ err' = kind
    /\ failedAt' = at

\* mutant: the loop skips every other block
NextIndexSkip(k) == k + 2

\* the iteration protocol over src: __getitem__(0), __getitem__(1), ...
NextIndex(k) == k + 1

\* lines 284-286, when _compute_blocks returns
Construct ==
    /\ pc = "start"
    /\ ~ComputeRaises(bcHeight, bcWidth, sample_size[1], sample_size[2], bound)
    /\ blocks' = ComputeBlocks(bcHeight, bcWidth, sample_size[1], sample_size[2], bound)
    /\ dsts' = [ch \in 1..nChannels |-> Blank(bcHeight, bcWidth)]
    /\ closed' = [ch \in 1..nChannels |-> 0]
    /\ pc' = "read"
    /\ UNCHANGED <<bcHeight, bcWidth, sample_size, bound, nChannels, predictor, i,
                   sample, raster, log, err, failedAt, lastWrite>>

\* line 284, when range() raises inside _compute_blocks
ConstructFail ==
    /\ pc = "start"
    /\ ComputeRaises(bcHeight, bcWidth, sample_size[1], sample_size[2], bound)
    /\ Raise("ValueError", "construct")
    /\ UNCHANGED <<bcHeight, bcWidth, sample_size, bound, nChannels, predictor, blocks,
                   sample, raster, dsts, closed, log, lastWrite>>

\* line 288: src[i], SequentialSampler.__getitem__
Read ==
    /\ pc = "read"
    /\ i < Len(blocks)
    /\ LET block == blocks[i + 1]
       IN  sample' = Sample(block.y, block.x, block.height, block.width)
    /\ log' = Append(log, <<"read", i>>)
    /\ pc' = "predict"
    /\ UNCHANGED <<bcHeight, bcWidth, sample_size, bound, nChannels, predictor, blocks,
                   i, raster, dsts, closed, err, failedAt, lastWrite>>

\* line 288: the storage collaborator fails to read
ReadFail ==
    /\ pc = "read"
    /\ i < Len(blocks)
    /\ Raise("IOError", "read")
    /\ UNCHANGED <<bcHeight, bcWidth, sample_size, bound, nChannels, predictor, blocks,
                   sample, raster, dsts, closed, log, lastWrite>>

\* line 289 with a subclass whose predict returns its sample
Predict ==
    /\ pc = "predict"
    /\ predictor = "identity"
    /\ raster' = sample
    /\ log' = Append(log, <<"predict", i>>)
    /\ pc' = "write"
    /\ UNCHANGED <<bcHeight, bcWidth, sample_size, bound, nChannels, predictor, blocks,
                   i, sample, dsts, closed, err, failedAt, lastWrite>>

\* line 289 with a subclass whose predict raises
PredictFail ==
    /\ pc = "predict"
    /\ predictor = "identity"
    /\ Raise("PredictError", "predict")
    /\ UNCHANGED <<bcHeight, bcWidth, sample_size, bound, nChannels, predictor, blocks,
                   sample, raster, dsts, closed, log, lastWrite>>

\* line 289 with the base class: predict is line 270
PredictBase ==
    /\ pc = "predict"
    /\ predictor = "base"
    /\ Raise(BasePredictError, "predict")
    /\ UNCHANGED <<bcHeight, bcWidth, sample_size, bound, nChannels, predictor, blocks,
                   sample, raster, dsts, closed, log, lastWrite>>

\* line 290: dst.write(raster, **block), every channel written
Write ==
    /\ pc = "write"
    /\ LET a == WriteArgs(raster, blocks[i + 1])
       IN  /\ dsts' = SCWWrite(dsts, a.raster, a.x, a.y, a.height, a.width, a.bounds,
                               Len(dsts))
           /\ lastWrite' = [args |-> a,
                            calls |-> SCWCalls(a.raster, a.x, a.y, a.height, a.width,
                                               a.bounds)]
    /\ log' = Append(log, <<"write", i>>)
    /\ i' = NextIndex(i)
    /\ pc' = "read"
    /\ UNCHANGED <<bcHeight, bcWidth, sample_size, bound, nChannels, predictor, blocks,
                   sample, raster, closed, err, failedAt>>

\* line 290: the storage collaborator fails in the write of channel n + 1, after the
\* first n channels were written
WriteFail ==
    /\ pc = "write"
    /\ \E n \in 0..(Len(dsts) - 1) :
          LET a == WriteArgs(raster, blocks[i + 1])
          IN  /\ dsts' = SCWWrite(dsts, a.raster, a.x, a.y, a.height, a.width,
                                  a.bounds, n)
              /\ lastWrite' = [args |-> a,
                               calls |-> SubSeq(SCWCalls(a.raster, a.x, a.y, a.height,
                                                         a.width, a.bounds), 1, n + 1)]
    /\ Raise("IOError", "write")
    /\ UNCHANGED <<bcHeight, bcWidth, sample_size, bound, nChannels, predictor, blocks,
                   sample, raster, closed, log>>

\* line 288 ends the loop with IndexError from blocks[i]; line 292: dst.close()
Close ==
    /\ pc = "read"
    /\ i >= Len(blocks)
    /\ closed' = [ch \in 1..Len(closed) |-> closed[ch] + 1]
    /\ log' = Append(log, <<"close", i>>)
    /\ pc' = "done"
    /\ UNCHANGED <<bcHeight, bcWidth, sample_size, bound, nChannels, predictor, blocks,
                   i, sample, raster, dsts, err, failedAt, lastWrite>>

Next ==
    \/ Construct
    \/ ConstructFail
    \/ Read
    \/ ReadFail
    \/ Predict
    \/ PredictFail
    \/ PredictBase
    \/ Write
    \/ WriteFail
    \/ Close

Spec == Init /\ [][Next]_vars

\* --------------------------------- direct use of one SampleWindowWriter
\* the destination of the writer session: every window of a call fits into it
WriterExtent == WinMax + 1

\* the raster handed to a direct write: pixel (r, c) of a height x width array
CallRaster(tag, height, width) ==
    [r \in 1..height |-> [c \in 1..width |-> SrcPixel(tag, r - 1, c - 1)]]

\* the bounds a caller may pass: None or [[top, bottom], [left, right]]
CallBounds ==
    {None} \cup
    { << <<t, b>>, <<l, r>> >> : t \in 0..TrimMax, b \in 0..TrimMax,
                                   l \in 0..TrimMax, r \in 0..TrimMax }

\* SampleWindowWriter.__init__: one writer, its destination opened empty
InitWriter ==
    /\ bcHeight = WriterExtent
    /\ bcWidth = WriterExtent
    /\ sample_size = <<1, 1>>
    /\ bound = 0
    /\ nChannels = 1
    /\ predictor = "identity"
    /\ blocks = <<>>
    /\ pc = "fresh"
    /\ i = 0
    /\ sample = <<>>
    /\ raster = <<>>
    /\ dsts = <<Blank(WriterExtent, WriterExtent)>>
    /\ closed = <<0>>
    /\ log = <<>>
    /\ err = "none"
    /\ failedAt = "none"
    /\ lastWrite = NoWrite

\* one call of write on the single writer
WriterCall(call, to) ==
    /\ dsts' = <<SWWrite(dsts[1], call)>>
    /\ lastWrite' = [args |-> [raster |-> <<call.raster>>, x |-> call.x, y |-> call.y,
                               height |-> call.height, width |-> call.width,
                               bounds |-> call.bounds],
                     calls |-> <<call>>]
    /\ pc' = to
    /\ UNCHANGED <<bcHeight, bcWidth, sample_size, bound, nChannels, predictor, blocks,
                   i, sample, raster, closed, log, err, failedAt>>

\* write(raster, 0, 0, width, height) of a raster covering the whole destination
WriterFill ==
    /\ pc = "fresh"
    /\ WriterCall(SWBind(CallRaster(9, WriterExtent, WriterExtent), 0, 0,
                         WriterExtent, WriterExtent, None), "filled")

\* write(raster, x, y, width, height, bounds) of a height x width raster
WriterWrite ==
    /\ pc \in {"fresh", "filled"}
    /\ \E height \in 1..WinMax, width \in 1..WinMax :
          \E y \in 0..(WriterExtent - height), x \in 0..(WriterExtent - width) :
             \E bounds \in CallBounds :
                WriterCall(SWBind(CallRaster(1, height, width), x, y, width, height,
                                  bounds), "written")

NextWriter ==
    \/ WriterFill
    \/ WriterWrite

SpecWriter == InitWriter /\ [][NextWriter]_vars

\* ------------------------------------------------------------------ claims
\* the sampler was constructed with a positive sample size
Planned == pc # "start" /\ sample_size[1] > 0 /\ sample_size[2] > 0

\* the trimmed write window of a block, as half-open intervals
TrimTop(block) == block.y + block.bounds[1][1]

TrimBottom(block) == block.y + block.height - block.bounds[1][2]

TrimLeft(block) == block.x + block.bounds[2][1]

TrimRight(block) == block.x + block.width - block.bounds[2][2]

InTrim(block, r, c) ==
    /\ TrimTop(block) <= r /\ r < TrimBottom(block)
    /\ TrimLeft(block) <= c /\ c < TrimRight(block)

\* C1: the trimmed write regions of the blocks tile the raster: every pixel of
\* [0,H) x [0,W) lies in the trimmed region of exactly one block, and every trimmed
\* region that holds a pixel lies inside the raster
C1_Tiling ==
    Planned =>
        /\ \A r \in 0..(bcHeight - 1), c \in 0..(bcWidth - 1) :
              Cardinality({k \in 1..Len(blocks) : InTrim(blocks[k], r, c)}) = 1
        /\ \A k \in 1..Len(blocks) :
              (TrimTop(blocks[k]) < TrimBottom(blocks[k])
                  /\ TrimLeft(blocks[k]) < TrimRight(blocks[k])) =>
                 /\ 0 <= TrimTop(blocks[k]) /\ TrimBottom(blocks[k]) <= bcHeight
                 /\ 0 <= TrimLeft(blocks[k]) /\ TrimRight(blocks[k]) <= bcWidth

\* C1 witness: a plan with bound > 0 whose sample size does not divide the extent
C1_Witness ==
    /\ Planned
    /\ bound > 0
    /\ Len(blocks) > 3
    /\ bcHeight % sample_size[1] # 0
    /\ bcWidth % sample_size[2] # 0

\* C2: after a run with an identity predict, the closed output equals the input raster
\* pixel for pixel in every channel
C2_RoundTrip ==
    (pc = "done" /\ predictor = "identity" /\ Planned) =>
        \A ch \in 1..nChannels, r \in 0..(bcHeight - 1), c \in 0..(bcWidth - 1) :
            dsts[ch][r + 1][c + 1] = SrcPixel(ch, r, c)

\* the sub-array of arr with the first t rows, last b rows, first l columns and last
\* r columns removed: its pixel (k, m) is pixel (k + t, m + l) of arr
CropPixel(arr, t, l, k, m) == arr[k + t + 1][m + l + 1]

\* the trims of a call: all zero when bounds is None
CallTrims(call) ==
    IF call.bounds = None THEN << <<0, 0>>, <<0, 0>> >> ELSE call.bounds

\* C3: a write of a height x width raster changes exactly the destination window rows
\* [y+top, y+height-bottom), columns [x+left, x+width-right), which receives the
\* raster cropped by the trims (the whole raster at [y, y+height) x [x, x+width) when
\* bounds is None); every other destination pixel keeps its value
C3_WriteWindow ==
    [][lastWrite' # lastWrite =>
        LET call == lastWrite'.calls[1]
            t == CallTrims(call)
            y0 == call.y + t[1][1]
            y1 == call.y + call.height - t[1][2]
            x0 == call.x + t[2][1]
            x1 == call.x + call.width - t[2][2]
        IN  \A r \in 0..(bcHeight - 1), c \in 0..(bcWidth - 1) :
                dsts'[1][r + 1][c + 1] =
                    IF y0 <= r /\ r < y1 /\ x0 <= c /\ c < x1
                    THEN CropPixel(call.raster, t[1][1], t[2][1], r - y0, c - x0)
                    ELSE dsts[1][r + 1][c + 1]]_vars

\* C3 witness: a trimmed write over a filled destination: the window holds the cropped
\* raster and a pixel outside it still holds the earlier content
C3_Witness ==
    /\ pc = "written"
    /\ lastWrite.calls # <<>>
    /\ LET call == lastWrite.calls[1]
       IN  /\ call.bounds = << <<1, 0>>, <<1, 0>> >>
           /\ call.height = 2
           /\ call.width = 2
           /\ dsts[1][call.y + 2][call.x + 2] = SrcPixel(1, 1, 1)
           /\ dsts[1][call.y + 1][call.x + 1] = SrcPixel(9, call.y, call.x)

\* C4: every single-channel writer receives its channel's slice and the x, y, width,
\* height and bounds the multi-channel write was called with
C4_Dispatch ==
    \A ch \in 1..Len(lastWrite.calls) :
        lastWrite.calls[ch] =
            [raster |-> lastWrite.args.raster[ch],
             x |-> lastWrite.args.x,
             y |-> lastWrite.args.y,
             width |-> lastWrite.args.width,
             height |-> lastWrite.args.height,
             bounds |-> lastWrite.args.bounds]

\* the events of a complete run over n blocks
ExpectedLog(n) ==
    [k \in 1..(3 * n + 1) |->
        IF k = 3 * n + 1
        THEN <<"close", n>>
        ELSE <<(CASE k % 3 = 1 -> "read" [] k % 3 = 2 -> "predict" [] OTHER -> "write"),
               (k - 1) \div 3>>]

\* C5: the events of a run are read 0, predict 0, write 0, read 1, ... in planner
\* order, each block once; a finished run has all of them followed by one close of
\* every writer, and no writer is closed before that
C5_Order ==
    (pc \notin {"start", "fresh", "filled", "written"}) =>
        /\ Len(log) <= 3 * Len(blocks) + 1
        /\ log = SubSeq(ExpectedLog(Len(blocks)), 1, Len(log))
        /\ pc = "done" =>
              /\ log = ExpectedLog(Len(blocks))
              /\ \A ch \in 1..Len(closed) : closed[ch] = 1
        /\ pc # "done" =>
              /\ Len(log) <= 3 * Len(blocks)
              /\ \A ch \in 1..Len(closed) : closed[ch] = 0

\* C5 witness: a finished run over several blocks
C5_Witness ==
    /\ pc = "done"
    /\ Len(blocks) > 3
    /\ Len(log) = 3 * Len(blocks) + 1
    /\ Len(closed) = 2

\* C6: the trimmed write window of every block is a well-formed rectangle inside the
\* raster
C6_WellFormed ==
    Planned =>
        \A k \in 1..Len(blocks) :
            /\ 0 <= TrimTop(blocks[k])
            /\ TrimTop(blocks[k]) <= TrimBottom(blocks[k])
            /\ TrimBottom(blocks[k]) <= bcHeight
            /\ 0 <= TrimLeft(blocks[k])
            /\ TrimLeft(blocks[k]) <= TrimRight(blocks[k])
            /\ TrimRight(blocks[k]) <= bcWidth

\* C7 as stated: every block whose read window overhangs the bottom (right) edge has
\* its trimmed window end at H (W)
C7_Overhang ==
    Planned =>
        \A k \in 1..Len(blocks) :
            /\ blocks[k].y + blocks[k].height > bcHeight =>
                  TrimBottom(blocks[k]) = bcHeight
            /\ blocks[k].x + blocks[k].width > bcWidth =>
                  TrimRight(blocks[k]) = bcWidth

\* C7 amended: every block whose read window overhangs the bottom (right) edge by at
\* least the bound has its trimmed window end at H (W)
C7_OverhangAtLeastBound ==
    Planned =>
        \A k \in 1..Len(blocks) :
            /\ blocks[k].y + blocks[k].height - bcHeight >= bound =>
                  TrimBottom(blocks[k]) = bcHeight
            /\ blocks[k].x + blocks[k].width - bcWidth >= bound =>
                  TrimRight(blocks[k]) = bcWidth

\* C7 witness: a block overhanging both edges by more than a positive bound, its trim
\* grown beyond the bound
C7_Witness ==
    /\ Planned
    /\ bound > 0
    /\ \E k \in 1..Len(blocks) :
          /\ blocks[k].y + blocks[k].height - bcHeight > bound
          /\ blocks[k].x + blocks[k].width - bcWidth > bound
          /\ blocks[k].bounds[1][2] > bound
          /\ blocks[k].bounds[2][2] > bound
          /\ TrimTop(blocks[k]) < bcHeight
          /\ TrimLeft(blocks[k]) < bcWidth

C9_NotImplemented ==
    (predictor = "base" /\ failedAt = "predict") => err = "NotImplementedError"

\* C10: a sample size with a zero or negative side makes the construction raise
C10_Raises ==
    (pc # "start" /\ (sample_size[1] <= 0 \/ sample_size[2] <= 0)) =>
        (pc = "failed" /\ failedAt = "construct")

====
